---- MODULE Spec2Model ----
(***************************************************************************)
(* State-machine models of the algorithmic parts of the repository:        *)
(*   - punctuate_capitalize_nmt.py: label voting (update_label_counter,    *)
(*     select_best_label), the capitalization step of                      *)
(*     apply_autoregressive_labels, split_into_segments as called by main, *)
(*     and get_label_votes;                                                *)
(*   - stream_wrapper.py: StreamWrapper construction and forward;          *)
(*   - prompt_table.py: the PromptTable and its prompts;                   *)
(*   - tsvad_models.py: ClusterEmbedding.assign_labels_to_longer_segs;     *)
(*   - punctuation.py: the transducer of PunctuationFst.                   *)
(* Python strings are sequences of one-character strings; a Python dict is *)
(* the sequence of its items in insertion order.  A call that raises ends  *)
(* with the name of the exception in place of its result; assert           *)
(* statements are executed (the interpreter's default).                    *)
(***************************************************************************)
EXTENDS Integers, Sequences, FiniteSets, TLC

VARIABLES
    \* label voting
    counter,        \* a vote counter: items [lbl, votes, dist] in insertion order
    best,           \* the last select_best_label call: its argument and its result
    applied,        \* the last word processed by apply_autoregressive_labels
    \* main and split_into_segments
    args,           \* the parsed command line
    texts,          \* the input lines, each a list of words
    segments,       \* split_into_segments: the segments so far
    query_indices,  \* split_into_segments: the query of each segment
    start_word_i,   \* split_into_segments: the first word of each segment
    segment_start,  \* split_into_segments: the loop's running start
    split_q_i,      \* split_into_segments: the query the loop is at
    split_pc,       \* "idle", "split" (in the loop) or "done" (returned)
    \* get_label_votes
    glv_in,                         \* the arguments of the call
    current_segment_i,
    segment_id_in_query,
    lbl_i,                          \* the place of the for loop in labels
    num_processed_words_in_segment,
    punctuation_voting,
    capitalization_voting,
    contributed,                    \* the update_label_counter calls made: <<segment, word in segment>>
    glv_pc,                         \* "idle", "while", "for", "returned" or the exception raised
    \* StreamWrapper
    self,           \* the attributes of the wrapper
    ctor,           \* the constructor call: its arguments and what it raised
    call,           \* the last forward call: its input, what it raised, what the wrapped layer got
    fed,            \* the inputs of the forward calls so far, in order
    \* PromptTable
    table,          \* the attributes of the PromptTable
    pt_call,        \* the last call on the table: its arguments and what it raised
    \* assign_labels_to_longer_segs
    clus_in,                \* the arguments of the call
    new_clus_label_dict,    \* scale_index -> the dict of the scale, items in insertion order
    clus_i,                 \* the sessions of session_scale_mapping_dict gone through
    clus_pc,                \* "idle", "for", "returned", "ipdb.set_trace" or the exception raised
    \* PunctuationFst
    token,          \* the string handed to the transducer, and the parts it is written from
    verbalized      \* the rewrite: None before it, else the set of the transducer's outputs

voteVars == <<counter, best, applied>>

splitVars == <<args, texts, segments, query_indices, start_word_i, segment_start, split_q_i, split_pc>>

glvVars == <<glv_in, current_segment_i, segment_id_in_query, lbl_i, num_processed_words_in_segment,
             punctuation_voting, capitalization_voting, contributed, glv_pc>>

swVars == <<self, ctor, call, fed>>

ptVars == <<table, pt_call>>

clusVars == <<clus_in, new_clus_label_dict, clus_i, clus_pc>>

fstVars == <<token, verbalized>>

vars == <<voteVars, splitVars, glvVars, swVars, ptVars, clusVars, fstVars>>

(***************************************************************************)
(* Bounds of the model.                                                    *)
(***************************************************************************)
MaxVotes == 3       \* votes cast into one counter
MaxSegWords == 2    \* words in a segment, as seen by update_label_counter
MaxSeqLen == 4      \* --max_seq_length
MaxStep == 2        \* --step
MaxMargin == 1      \* --margin
MaxWords == 6       \* words in an input line
MaxTexts == 2       \* input lines
MaxQueryWords == 3  \* words in the query of get_label_votes
MaxSegments == 2    \* segments handed to get_label_votes
MaxCalls == 3       \* forward calls on one wrapper
MaxFrame == 2       \* distinct non-zero input frames
MaxInputTime == 2   \* time size of a forward input
MaxKernel == 2      \* kernel size, stride and dilation of a wrapped layer
MaxRing == 2        \* an explicit ring_buffer_size_in_time_dim
MaxSoftTokens == 3  \* total_soft_tokens of a PromptTable
MaxInitTokens == 4  \* token ids handed to init_prompt_from_text
MaxBaseSegs == 3    \* base-scale segments, over the sessions of a call
MaxSpaces == 2      \* spaces between name: and the quote of a token
MaxNameLen == 2     \* characters between the quotes of a token
MaxAfterLen == 2    \* characters of a token after pause_length

(***************************************************************************)
(* Python helpers.                                                         *)
(***************************************************************************)
Min(a, b) == IF a <= b THEN a ELSE b

Max(a, b) == IF a >= b THEN a ELSE b

Range(s) == {s[i] : i \in 1..Len(s)}

Front(s) == SubSeq(s, 1, Len(s) - 1)

\* s[a:b] of Python: a negative index counts from the end, and both are clipped to the list
SliceIndex(i, n) == IF i < 0 THEN (IF i + n < 0 THEN 0 ELSE i + n) ELSE Min(i, n)

Slice(s, a, b) == SubSeq(s, SliceIndex(a, Len(s)) + 1, SliceIndex(b, Len(s)))

(***************************************************************************)
(* update_label_counter and select_best_label.                             *)
(***************************************************************************)
VoteLabels == {"O", "u", "U", ","}

\* min(word_ind_in_segment + 1, num_words_in_segment - word_ind_in_segment - 1)
BorderDistance(num_words_in_segment, word_ind_in_segment) ==
    Min(word_ind_in_segment + 1, num_words_in_segment - word_ind_in_segment - 1)

HasLabel(c, lbl) == \E i \in 1..Len(c) : c[i].lbl = lbl

\* counter after update_label_counter(counter, lbl, num_words_in_segment, word_ind_in_segment)
update_label_counter(c, lbl, num_words_in_segment, word_ind_in_segment) ==
    LET d == BorderDistance(num_words_in_segment, word_ind_in_segment) IN
    IF HasLabel(c, lbl)
    THEN [i \in 1..Len(c) |->
            IF c[i].lbl = lbl
            THEN [lbl |-> lbl, votes |-> c[i].votes + 1, dist |-> c[i].dist + d]
            ELSE c[i]]
    ELSE Append(c, [lbl |-> lbl, votes |-> 1, dist |-> d])

\* the order of two items under a sort key: a's key is strictly smaller than b's.
\* "avg":   key -x[1][1] / x[1][0]  (votes are positive, so compare by cross product)
\* "votes": key -x[1][0]
KeyLess(key, a, b) ==
    IF key = "avg"
    THEN a.dist * b.votes > b.dist * a.votes
    ELSE a.votes > b.votes

RECURSIVE InsertStable(_, _, _)
InsertStable(key, x, s) ==
    IF s = <<>> THEN <<x>>
    ELSE IF KeyLess(key, x, Head(s)) THEN <<x>> \o s
    ELSE <<Head(s)>> \o InsertStable(key, x, Tail(s))

\* sorted(s, key=...): Python's sort is stable
RECURSIVE Sorted(_, _)
Sorted(key, s) ==
    IF s = <<>> THEN <<>>
    ELSE InsertStable(key, s[Len(s)], Sorted(key, Front(s)))

\* select_best_label without its second sort
select_best_label_first_sort_only(votes) ==
    IF votes = <<>> THEN "IndexError"
    ELSE Sorted("avg", votes)[1].lbl

select_best_label(votes) ==
    IF votes = <<>> THEN "IndexError"
    ELSE Sorted("votes", Sorted("avg", votes))[1].lbl

(***************************************************************************)
(* The capitalization step of apply_autoregressive_labels.                 *)
(***************************************************************************)
Words == {<<"a">>, <<"a", "b">>, <<"a", "B">>, <<"A", "b">>}

UpperChar(ch) == IF ch = "a" THEN "A" ELSE IF ch = "b" THEN "B" ELSE ch

LowerChar(ch) == IF ch = "A" THEN "a" ELSE IF ch = "B" THEN "b" ELSE ch

\* str.upper()
Upper(w) == [i \in 1..Len(w) |-> UpperChar(w[i])]

\* str.capitalize(): the first character upper-cased, the rest lower-cased
Capitalize(w) == [i \in 1..Len(w) |-> IF i = 1 THEN UpperChar(w[i]) ELSE LowerChar(w[i])]

Returned(text) == [raised |-> "none", text |-> text]

Raised(exc) == [raised |-> exc, text |-> <<>>]

\* the word appended to processed_query for one word of the query
CapitalizedWord(word, capitalization_label, no_all_upper_label) ==
    IF no_all_upper_label
    THEN IF capitalization_label = "U" THEN Returned(Capitalize(word))
         ELSE IF capitalization_label = "O" THEN Returned(word)
         ELSE Raised("ValueError")
    ELSE IF capitalization_label = "U" THEN Returned(Upper(word))
         ELSE IF capitalization_label = "u" THEN Returned(Capitalize(word))
         ELSE IF capitalization_label = "O" THEN Returned(word)
         ELSE Raised("ValueError")

NoCall == [called |-> FALSE]

TotalVotes(c) == IF c = <<>> THEN 0 ELSE LET RECURSIVE Sum(_)
                                             Sum(i) == IF i = 0 THEN 0 ELSE c[i].votes + Sum(i - 1)
                                         IN Sum(Len(c))

\* get_label_votes casts all the votes of a query before any label is selected
UpdateLabelCounter ==
    /\ TotalVotes(counter) < MaxVotes
    /\ best = NoCall /\ applied = NoCall
    /\ \E lbl \in VoteLabels, n \in 1..MaxSegWords :
        \E i \in 0..(n - 1) :
            counter' = update_label_counter(counter, lbl, n, i)
    /\ UNCHANGED <<best, applied>>
    /\ UNCHANGED <<splitVars, glvVars, swVars, ptVars, clusVars, fstVars>>

SelectBestLabel ==
    /\ best' = [called |-> TRUE, votes |-> counter, result |-> select_best_label(counter)]
    /\ UNCHANGED <<counter, applied>>
    /\ UNCHANGED <<splitVars, glvVars, swVars, ptVars, clusVars, fstVars>>

\* one iteration of the loop over the words of a query, with cv the word's counter
ApplyLabel ==
    /\ \E word \in Words, no_all_upper_label \in BOOLEAN :
        LET capitalization_label == select_best_label(counter)
            punctuation_label == select_best_label(counter)
        IN applied' = [called |-> TRUE,
                       word |-> word,
                       no_all_upper_label |-> no_all_upper_label,
                       capitalization_label |-> capitalization_label,
                       punctuation_label |-> punctuation_label,
                       out |-> IF capitalization_label = "IndexError" THEN Raised("IndexError")
                               ELSE CapitalizedWord(word, capitalization_label, no_all_upper_label)]
    /\ UNCHANGED <<counter, best>>
    /\ UNCHANGED <<splitVars, glvVars, swVars, ptVars, clusVars, fstVars>>

VoteNext == UpdateLabelCounter \/ SelectBestLabel \/ ApplyLabel

(***************************************************************************)
(* get_args, and split_into_segments as main calls it.                     *)
(***************************************************************************)
\* the checks of get_args that end in parser.error
ArgsValid(a) ==
    /\ a.max_seq_length > 0
    /\ a.max_seq_length - 2 * a.margin >= a.step

\* a line of n words; a word is known by its line and its place in the line
Line(t, n) == [i \in 1..n |-> <<t, i - 1>>]

\* main: the lines with text.strip() non-empty, in order
RECURSIVE NotEmpty(_)
NotEmpty(ts) ==
    IF ts = <<>> THEN <<>>
    ELSE IF Head(ts) # <<>> THEN <<Head(ts)>> \o NotEmpty(Tail(ts))
    ELSE NotEmpty(Tail(ts))

not_empty_queries == NotEmpty(texts)

\* main: split_into_segments(not_empty_queries, args.max_seq_length, args.margin)
SplitMaxSeqLength == args.max_seq_length

SplitStep == args.margin

\* the loop's cap: a call that returns appends fewer segments than this, and one whose
\* step is 0 or less never leaves the while loop once it is in it
MaxSegs == MaxWords + 1

\* while segment_start + max_seq_length < len(words)
LoopCondition(start, max_seq_length, words) == start + max_seq_length < Len(words)

\* the slice one word short
SegmentOneShort(words, start, max_seq_length) == Slice(words, start, start + max_seq_length - 1)

\* ' '.join(words[segment_start : segment_start + max_seq_length]), as its list of words
SegmentOf(words, start, max_seq_length) == Slice(words, start, start + max_seq_length)

\* one iteration of the while loop
SplitAppend ==
    /\ split_pc = "split"
    /\ split_q_i < Len(not_empty_queries)
    /\ Len(segments) < MaxSegs
    /\ LET words == not_empty_queries[split_q_i + 1] IN
        /\ LoopCondition(segment_start, SplitMaxSeqLength, words)
        /\ segments' = Append(segments, SegmentOf(words, segment_start, SplitMaxSeqLength))
        /\ start_word_i' = Append(start_word_i, segment_start)
        /\ query_indices' = Append(query_indices, split_q_i)
        /\ segment_start' = segment_start + SplitStep
    /\ UNCHANGED <<args, texts, split_q_i, split_pc>>
    /\ UNCHANGED <<voteVars, glvVars, swVars, ptVars, clusVars, fstVars>>

\* the while loop ends: the for loop goes to the next query
SplitNextQuery ==
    /\ split_pc = "split"
    /\ split_q_i < Len(not_empty_queries)
    /\ ~LoopCondition(segment_start, SplitMaxSeqLength, not_empty_queries[split_q_i + 1])
    /\ split_q_i' = split_q_i + 1
    /\ UNCHANGED <<args, texts, segments, query_indices, start_word_i, segment_start, split_pc>>
    /\ UNCHANGED <<voteVars, glvVars, swVars, ptVars, clusVars, fstVars>>

SplitReturn ==
    /\ split_pc = "split"
    /\ split_q_i = Len(not_empty_queries)
    /\ split_pc' = "done"
    /\ UNCHANGED <<args, texts, segments, query_indices, start_word_i, segment_start, split_q_i>>
    /\ UNCHANGED <<voteVars, glvVars, swVars, ptVars, clusVars, fstVars>>

SplitNext == SplitAppend \/ SplitNextQuery \/ SplitReturn

(***************************************************************************)
(* get_label_votes.                                                        *)
(***************************************************************************)
\* --capitalization_labels, by default
capitalization_labels == <<"O", "u", "U">>

\* the model's outputs for a segment, in autoregressive format
LabelStrings ==
    { <<"O">>,
      <<"O", "u", "U">>,
      <<"U", " ">>,
      <<"U", " ", "O", " ">>,
      <<"U", ",", " ", "O", " ", "O", " ">> }

\* the first place (from 1) where sep occurs in s, 0 if it does not
FirstOccurrence(s, sep) ==
    LET places == {i \in 1..(Len(s) - Len(sep) + 1) : SubSeq(s, i, i + Len(sep) - 1) = sep}
    IN IF places = {} THEN 0 ELSE CHOOSE i \in places : \A j \in places : i <= j

\* x in s, for strings
IsSubstring(x, s) == x = <<>> \/ FirstOccurrence(s, x) # 0

\* s.split(sep) for a non-empty sep
RECURSIVE PySplit(_, _)
PySplit(s, sep) ==
    LET at == FirstOccurrence(s, sep) IN
    IF at = 0 THEN <<s>>
    ELSE <<SubSeq(s, 1, at - 1)>> \o PySplit(SubSeq(s, at + Len(sep), Len(s)), sep)

\* len(capitalization_pattern.findall(s)): the characters of s that are capitalization labels
RECURSIVE CountCapitalizationLabels(_)
CountCapitalizationLabels(s) ==
    IF s = <<>> THEN 0
    ELSE (IF Head(s) \in Range(capitalization_labels) THEN 1 ELSE 0) + CountCapitalizationLabels(Tail(s))

\* a Python list index: negative indices count from the end; -1 stands for IndexError
PyIndex(i, n) == IF 0 <= i /\ i < n THEN i ELSE IF -n <= i /\ i < 0 THEN i + n ELSE -1

SegmentLabelString == glv_in.segment_autoregressive_labels[current_segment_i + 1]

num_words_in_segment == CountCapitalizationLabels(SegmentLabelString)

the_last_segment == segment_id_in_query * glv_in.step + num_words_in_segment >= glv_in.num_words

\* labels = capitalization_labels.split(segment_autoregressive_labels[current_segment_i])
labels == PySplit(capitalization_labels, SegmentLabelString)

\* if segment_id_in_query > 0 and num_processed_words_in_segment <= margin != 0: continue
InLeadingMargin(segment_id, num_processed, margin) ==
    segment_id > 0 /\ num_processed <= margin /\ margin # 0

\* if not the_last_segment and num_processed_words_in_segment > num_words_in_segment - margin: break
InTrailingMargin(last, num_processed, num_in_segment, margin) ==
    ~last /\ num_processed > num_in_segment - margin

VotingAfter(voting, at, lbl, num_in_segment, word_ind) ==
    [voting EXCEPT ![at + 1] = update_label_counter(@, lbl, num_in_segment, word_ind)]

\* the test of the while loop and the statements before the for loop
GlvWhile ==
    /\ glv_pc = "while"
    /\ IF current_segment_i >= Len(glv_in.query_indices)
       THEN glv_pc' = "IndexError"
       ELSE IF glv_in.query_indices[current_segment_i + 1] # glv_in.q_i
       THEN glv_pc' = "returned"
       ELSE IF SegmentLabelString = <<>>
       THEN glv_pc' = "ValueError"
       ELSE glv_pc' = "for"
    /\ lbl_i' = 0
    /\ num_processed_words_in_segment' = 0
    /\ UNCHANGED <<glv_in, current_segment_i, segment_id_in_query, punctuation_voting,
                   capitalization_voting, contributed>>
    /\ UNCHANGED <<voteVars, splitVars, swVars, ptVars, clusVars, fstVars>>

\* the for loop is over, by exhaustion or by break
GlvNextSegment ==
    /\ segment_id_in_query' = segment_id_in_query + 1
    /\ current_segment_i' = current_segment_i + 1
    /\ glv_pc' = "while"

\* one iteration of the for loop over labels
GlvFor ==
    /\ glv_pc = "for"
    /\ IF lbl_i >= Len(labels)
       THEN /\ GlvNextSegment
            /\ UNCHANGED <<lbl_i, num_processed_words_in_segment, punctuation_voting,
                           capitalization_voting, contributed>>
       ELSE LET lbl == labels[lbl_i + 1]
                processed == num_processed_words_in_segment +
                                (IF IsSubstring(lbl, capitalization_labels) THEN 1 ELSE 0)
                query_word_i == glv_in.step * current_segment_i + processed - 1
                is_cap == lbl_i % 2 = 1
                at == PyIndex(query_word_i, IF is_cap THEN Len(capitalization_voting)
                                                      ELSE Len(punctuation_voting))
            IN
            /\ num_processed_words_in_segment' = processed
            /\ IF InLeadingMargin(segment_id_in_query, processed, glv_in.margin)
               THEN /\ lbl_i' = lbl_i + 1
                    /\ UNCHANGED <<current_segment_i, segment_id_in_query, punctuation_voting,
                                   capitalization_voting, contributed, glv_pc>>
               ELSE IF InTrailingMargin(the_last_segment, processed, num_words_in_segment, glv_in.margin)
               THEN /\ GlvNextSegment
                    /\ UNCHANGED <<lbl_i, punctuation_voting, capitalization_voting, contributed>>
               ELSE IF is_cap # IsSubstring(lbl, capitalization_labels)
               THEN \* assert lbl in capitalization_labels / assert lbl not in capitalization_labels
                    /\ glv_pc' = "AssertionError"
                    /\ UNCHANGED <<current_segment_i, segment_id_in_query, lbl_i, punctuation_voting,
                                   capitalization_voting, contributed>>
               ELSE IF at = -1
               THEN /\ glv_pc' = "IndexError"
                    /\ UNCHANGED <<current_segment_i, segment_id_in_query, lbl_i, punctuation_voting,
                                   capitalization_voting, contributed>>
               ELSE /\ IF is_cap
                       THEN /\ capitalization_voting' =
                                   VotingAfter(capitalization_voting, at, lbl, num_words_in_segment, processed - 1)
                            /\ UNCHANGED punctuation_voting
                       ELSE /\ punctuation_voting' =
                                   VotingAfter(punctuation_voting, at, lbl, num_words_in_segment, processed - 1)
                            /\ UNCHANGED capitalization_voting
                    /\ contributed' = contributed \cup {<<segment_id_in_query, processed - 1>>}
                    /\ lbl_i' = lbl_i + 1
                    /\ UNCHANGED <<current_segment_i, segment_id_in_query, glv_pc>>
    /\ UNCHANGED glv_in
    /\ UNCHANGED <<voteVars, splitVars, swVars, ptVars, clusVars, fstVars>>

GlvNext == GlvWhile \/ GlvFor

(***************************************************************************)
(* StreamWrapper.  A tensor is the sequence of its frames along the time   *)
(* dimension, 0 being a zero frame; None is <<>> and a value v is <<v>>.   *)
(* The wrapper's attributes are the names __init__ and _build_states       *)
(* assign: reading any other name of self raises AttributeError.  The      *)
(* statements on shapes and tensors are read as written (list              *)
(* concatenation, slicing and concatenation along the time dimension).     *)
(***************************************************************************)
None == <<>>

Some(v) == <<v>>

\* the truth value of an optional number: neither None nor 0
Truthy(opt) == opt # None /\ opt[1] # 0

Modes == {"TRAINING", "STREAM_INTERNAL_STATE_INFERENCE", "STREAM_EXTERNAL_STATE_INFERENCE",
          "NON_STREAM_INFERENCE"}

NonStreamingModes == {"TRAINING", "NON_STREAM_INFERENCE"}

_is_conv_op(m) == m.kind \in {"Conv1d", "Conv2d"}

_is_pool_op(m) == m.kind \in {"AvgPool1d", "AvgPool2d"}

_is_global_time_dim_op(m) == m.kind \in {"Flatten", "AdaptiveMaxPool1d", "AdaptiveAvgPool1d"}

\* padding != 0, for a padding that is the int v or a tuple of v's (what nn.Conv1d and
\* nn.Conv2d keep): a tuple is never equal to 0
PaddingDiffersFromZero(padding) == padding.is_tuple \/ padding.v # 0

\* the checks of a conv without the one of the stride
ConvChecksWithoutStride(mode, padding, samplewise_inference, stride0) ==
    IF mode \notin NonStreamingModes /\ PaddingDiffersFromZero(padding)
    THEN "ValueError: conv/cell padding has to be 0"
    ELSE "none"

\* the checks of a conv in _initialize_ring_buffer_size_in_time_dim: what they raise
ConvChecks(mode, padding, samplewise_inference, stride0) ==
    IF mode \notin NonStreamingModes
    THEN IF PaddingDiffersFromZero(padding)
         THEN "ValueError: conv/cell padding has to be 0"
         ELSE IF samplewise_inference /\ stride0 > 1
         THEN "ValueError: Stride in time dim greater than 1"
         ELSE "none"
    ELSE "none"

\* the ring buffer size of a conv
ConvRingBufferSize(m, samplewise_inference) ==
    IF samplewise_inference
    THEN m.dilation * (m.kernel_size - 1) + 1
    ELSE Max(0, m.dilation * (m.kernel_size - 1) - (m.stride - 1))

\* if self.ring_buffer_size_in_time_dim, which takes a size of 0 for no size
RingSizeGivenWhenTruthy(ring) == Truthy(ring)

\* if self.ring_buffer_size_in_time_dim is not None
RingSizeGiven(ring) == ring # None

\* _initialize_ring_buffer_size_in_time_dim: the attributes after it and what it raised
InitializeRingBuffer(s) ==
    LET m == s.inner_module IN
    IF RingSizeGiven(s.ring_buffer_size_in_time_dim)
    THEN [self |-> s, raised |-> "none"]
    ELSE IF _is_conv_op(m)
    THEN LET s1 == [s EXCEPT !.stride = m.stride]
             exc == ConvChecks(s.mode, m.padding, s.samplewise_inference, m.stride)
         IN IF exc # "none"
            THEN [self |-> s1, raised |-> exc]
            ELSE [self |-> [s1 EXCEPT !.ring_buffer_size_in_time_dim =
                                            Some(ConvRingBufferSize(m, s.samplewise_inference))],
                  raised |-> "none"]
    ELSE IF _is_pool_op(m)
    THEN LET s1 == [s EXCEPT !.stride = m.stride] IN
         IF s.mode \notin NonStreamingModes /\ m.stride # m.kernel_size
         THEN [self |-> s1, raised |-> "ValueError: Stride in time must = pool size in time"]
         ELSE [self |-> [s1 EXCEPT !.ring_buffer_size_in_time_dim = Some(m.kernel_size)],
               raised |-> "none"]
    ELSE IF _is_global_time_dim_op(m)
    THEN IF s.state_shape # None /\ s.state_shape[1] # <<>>
         THEN [self |-> [s EXCEPT !.ring_buffer_size_in_time_dim = Some(s.state_shape[1][2])],
               raised |-> "none"]
         ELSE [self |-> s, raised |-> "none"]
    ELSE [self |-> s, raised |-> "ValueError: Cell is not supported"]

\* __init__: the attributes it assigns and what it raised
Init__(module, mode, pad_time_dim, state_shape, ring_buffer_size_in_time_dim, samplewise_inference) ==
    LET s0 == [inner_module |-> module,
               inference_batch_size |-> 1,
               mode |-> mode,
               pad_time_dim |-> pad_time_dim,
               state_shape |-> state_shape,
               ring_buffer_size_in_time_dim |-> ring_buffer_size_in_time_dim,
               samplewise_inference |-> samplewise_inference,
               stride |-> 1,
               built |-> FALSE,
               states |-> None,
               input_state |-> None,
               output_state |-> None,
               attributes |-> {"inner_module", "inference_batch_size", "mode", "pad_time_dim",
                               "state_shape", "ring_buffer_size_in_time_dim",
                               "samplewise_inference", "stride", "built"}]
    IN IF ~samplewise_inference /\ _is_global_time_dim_op(module)
       THEN [self |-> s0, raised |-> "ValueError: can be used only with samplewise_inference = True"]
       ELSE InitializeRingBuffer(s0)

Zeros(n) == [i \in 1..n |-> 0]

\* [batch, time, feature] of an input
ShapeOf(x) == <<1, Len(x), 2>>

\* [self.inference_batch_size, self.ring_buffer_size_in_time_dim] + input_shape[1:-1]
StateShapeFor(s, input_shape) ==
    <<s.inference_batch_size, s.ring_buffer_size_in_time_dim[1]>> \o Slice(input_shape, 1, Len(input_shape) - 1)

\* _build_states: the attributes after it and what it raised.  The internal state has
\* state_shape[1] frames; the external input_state is built from state_shape[1:], so
\* ring_buffer_size_in_time_dim is the size of its first dimension.
BuildStates(s, x) ==
    IF s.built THEN [self |-> s, raised |-> "none"]
    ELSE
    LET m == s.inner_module
        has_shape == s.state_shape # None /\ s.state_shape[1] # <<>>
        \* StreamInferenceMode has no member Modes: the test of line 249 raises
        no_such_member == _is_global_time_dim_op(m) /\ ~has_shape /\ ~_is_conv_op(m)
        s1 == IF _is_conv_op(m)
              THEN [s EXCEPT !.state_shape = Some(StateShapeFor(s, ShapeOf(x)))]
              ELSE IF _is_global_time_dim_op(m) /\ ~has_shape
              THEN s
              ELSE IF Truthy(s.ring_buffer_size_in_time_dim)
              THEN [s EXCEPT !.state_shape = Some(StateShapeFor(s, ShapeOf(x)))]
              ELSE s
        s2 == IF s1.mode = "STREAM_INTERNAL_STATE_INFERENCE"
              THEN IF Truthy(s1.ring_buffer_size_in_time_dim)
                   THEN [s1 EXCEPT !.states = Some(Zeros(s1.state_shape[1][2])),
                                   !.attributes = @ \cup {"states"}]
                   ELSE s1
              ELSE IF s1.mode = "STREAM_EXTERNAL_STATE_INFERENCE"
              THEN [s1 EXCEPT !.input_state = IF Truthy(s1.ring_buffer_size_in_time_dim)
                                               THEN Some(Zeros(s1.state_shape[1][2]))
                                               ELSE None,
                              !.output_state = None,
                              !.attributes = @ \cup {"input_state", "output_state"}]
              ELSE s1
    IN IF no_such_member
       THEN [self |-> s, raised |-> "AttributeError: Modes"]
       ELSE [self |-> [s2 EXCEPT !.built = TRUE], raised |-> "none"]

Outcome(s, raised, cell_input) == [self |-> s, raised |-> raised, cell_input |-> cell_input]

\* self.cell(*inputs): __init__ keeps the wrapped layer as inner_module and assigns no cell
CallCell(s, inputs) ==
    IF "cell" \in s.attributes
    THEN Outcome(s, "none", Some(inputs))
    ELSE Outcome(s, "AttributeError: cell", None)

\* _streaming_internal_state
StreamingInternalState(s, x) ==
    IF s.samplewise_inference
    THEN IF Len(x) # 1 THEN Outcome(s, "ValueError: inputs[0].shape[1] must be 1", None)
         ELSE IF "states" \notin s.attributes THEN Outcome(s, "AttributeError: states", None)
         ELSE LET memory == SubSeq(s.states[1], 2, Min(s.ring_buffer_size_in_time_dim[1], Len(s.states[1]))) \o x
              IN CallCell([s EXCEPT !.states = Some(memory)], memory)
    ELSE IF Truthy(s.ring_buffer_size_in_time_dim)
         THEN LET memory == s.states[1] \o x
                  r == s.ring_buffer_size_in_time_dim[1]
                  state_update == SubSeq(memory, Max(1, Len(memory) - r + 1), Len(memory))
              IN CallCell([s EXCEPT !.states = Some(state_update)], state_update)
         ELSE CallCell(s, x)

\* _streaming_external_state(self, *inputs, state), called with the state as a positional argument
StreamingExternalState(s, x, state_given_by_keyword) ==
    IF ~state_given_by_keyword
    THEN Outcome(s, "TypeError: missing keyword-only argument state", None)
    ELSE LET state == IF s.input_state = None THEN <<>> ELSE s.input_state[1]
             r == s.ring_buffer_size_in_time_dim[1]
         IN IF s.samplewise_inference
            THEN IF Len(x) # 1 THEN Outcome(s, "ValueError: inputs.shape[1] must be 1", None)
                 ELSE LET memory == SubSeq(state, 2, Min(r, Len(state))) \o x
                          out == CallCell(s, memory)
                      IN IF out.raised # "none" THEN out
                         ELSE [out EXCEPT !.self.output_state = Some(memory)]
            ELSE LET memory == state \o x
                     state_update == SubSeq(memory, Max(1, Len(memory) - r + 1), Len(memory))
                     out == CallCell(s, memory)
                 IN IF out.raised # "none" THEN out
                    ELSE [out EXCEPT !.self.output_state = Some(state_update)]

\* _non_streaming: self.use_one_step is read before any padding is done
NonStreaming(s, x) ==
    IF s.pad_time_dim # "None" /\ _is_global_time_dim_op(s.inner_module)
    THEN Outcome(s, "ValueError: pad_time_dim can not be used", None)
    ELSE IF "use_one_step" \notin s.attributes
    THEN Outcome(s, "AttributeError: use_one_step", None)
    ELSE LET pad_total_amount == s.ring_buffer_size_in_time_dim[1]
             left == IF s.pad_time_dim = "causal" THEN pad_total_amount
                     ELSE IF s.pad_time_dim = "same" THEN pad_total_amount \div 2
                     ELSE 0
             right == IF s.pad_time_dim = "same" THEN pad_total_amount - pad_total_amount \div 2 ELSE 0
         IN CallCell(s, Zeros(left) \o x \o Zeros(right))

\* forward
Forward_(s, x) ==
    LET b == BuildStates(s, x) IN
    IF b.raised # "none" THEN Outcome(b.self, b.raised, None)
    ELSE IF b.self.mode = "STREAM_INTERNAL_STATE_INFERENCE"
    THEN StreamingInternalState(b.self, x)
    ELSE IF b.self.mode = "STREAM_EXTERNAL_STATE_INFERENCE"
    THEN IF Truthy(b.self.ring_buffer_size_in_time_dim)
         THEN StreamingExternalState(b.self, x, FALSE)
         ELSE CallCell(b.self, x)
    ELSE NonStreaming(b.self, x)

\* the wrapped layers: a conv with its padding, stride, dilation and kernel size in time,
\* a pool with its stride and kernel size, the global ops, and a layer of no such kind
Paddings == [is_tuple : BOOLEAN, v : 0..1]

Module(kind, padding, stride, dilation, kernel_size) ==
    [kind |-> kind, padding |-> padding, stride |-> stride, dilation |-> dilation,
     kernel_size |-> kernel_size]

Modules ==
    {Module(kind, p, st, d, k) :
        kind \in {"Conv1d", "Conv2d"}, p \in Paddings, st \in 1..MaxKernel, d \in 1..MaxKernel, k \in 1..MaxKernel}
    \cup {Module(kind, [is_tuple |-> TRUE, v |-> 0], st, 1, k) :
        kind \in {"AvgPool1d", "AvgPool2d"}, st \in 1..MaxKernel, k \in 1..MaxKernel}
    \cup {Module(kind, [is_tuple |-> TRUE, v |-> 0], 1, 1, 1) :
        kind \in {"Flatten", "AdaptiveMaxPool1d", "AdaptiveAvgPool1d", "Linear"}}

Inputs == UNION {[1..t -> 1..MaxFrame] : t \in 1..MaxInputTime}

Construct ==
    /\ ctor = NoCall
    /\ \E module \in Modules, mode \in Modes, pad_time_dim \in {"None", "causal", "same"},
          state_shape \in {None, Some(<<1, MaxRing, 2>>)},
          ring \in {None} \cup {Some(r) : r \in 0..MaxRing},
          samplewise_inference \in BOOLEAN :
        LET made == Init__(module, mode, pad_time_dim, state_shape, ring, samplewise_inference) IN
        /\ self' = Some(made.self)
        /\ ctor' = [called |-> TRUE, ring_buffer_size_in_time_dim |-> ring, raised |-> made.raised]
    /\ UNCHANGED <<call, fed>>
    /\ UNCHANGED <<voteVars, splitVars, glvVars, ptVars, clusVars, fstVars>>

Forward ==
    /\ ctor # NoCall
    /\ ctor.raised = "none"
    /\ Len(fed) < MaxCalls
    /\ \E x \in Inputs :
        LET out == Forward_(self[1], x) IN
        /\ self' = Some(out.self)
        /\ call' = [called |-> TRUE, input |-> x, before |-> self[1], raised |-> out.raised,
                    cell_input |-> out.cell_input]
        /\ fed' = Append(fed, x)
    /\ UNCHANGED ctor
    /\ UNCHANGED <<voteVars, splitVars, glvVars, ptVars, clusVars, fstVars>>

SwNext == Construct \/ Forward

(***************************************************************************)
(* PromptTable.  The table is the record of its attributes; prompt_table   *)
(* (a ModuleDict) and task_id_num_to_name are dicts.  A PromptEmbedding is *)
(* the record of what its constructor was given: the weight of a prompt    *)
(* made with init_from_prompt_text is word_embedding_weights, that of any  *)
(* other is drawn by init_method and is no value of the model.  A tensor   *)
(* of embeddings is the sequence of its rows; hidden_size, the length of a *)
(* row, is left out.  apex is installed: the import of line 24 succeeded   *)
(* and tensor_parallel is a name of the module.                            *)
(***************************************************************************)
Tasks == {"a", "b"}

\* the lists of token ids of a prompt text of n tokens: n consecutive ids, or n times one id
TokenIdLists(n) ==
    {[i \in 1..n |-> first + i - 1] : first \in {0, 1}} \cup {[i \in 1..n |-> first] : first \in {0, 1}}

\* existing_tasks of the constructor; [None] is what a config without tasks gives
NoTask == "None"

ExistingTasks == {<<>>, <<NoTask>>, <<"a">>, <<"b", "a">>}

\* the names a method of prompt_table.py can read without self.: its module's names
ModuleNames == {"math", "torch", "nn", "init", "init_method_normal", "Exportable", "NeuralModule",
                "tensor_parallel", "HAVE_APEX", "__all__", "PromptTable", "PromptEmbedding"}

DictHas(d, key) == \E i \in 1..Len(d) : d[i].key = key

DictGet(d, key) == d[CHOOSE i \in 1..Len(d) : d[i].key = key].value

\* d[key] = value: a key the dict has keeps its place
DictSet(d, key, value) ==
    IF DictHas(d, key)
    THEN [i \in 1..Len(d) |-> IF d[i].key = key THEN [key |-> key, value |-> value] ELSE d[i]]
    ELSE Append(d, [key |-> key, value |-> value])

\* del d[key], for a key the dict has
DictDel(d, key) ==
    LET i == CHOOSE j \in 1..Len(d) : d[j].key = key IN
    SubSeq(d, 1, i - 1) \o SubSeq(d, i + 1, Len(d))

PromptEmbedding(init_from_prompt_text, total_soft_tokens, word_embedding_weights) ==
    [init_from_prompt_text |-> init_from_prompt_text,
     total_soft_tokens |-> total_soft_tokens,
     weight |-> IF init_from_prompt_text THEN word_embedding_weights ELSE None]

RECURSIVE WithRandomPrompts(_, _, _)
WithRandomPrompts(d, tasknames, total_soft_tokens) ==
    IF tasknames = <<>> THEN d
    ELSE WithRandomPrompts(DictSet(d, Head(tasknames), PromptEmbedding(FALSE, total_soft_tokens, None)),
                           Tail(tasknames), total_soft_tokens)

\* PromptTable(existing_tasks, total_soft_tokens, hidden_size)
PromptTable__init__(existing_tasks, total_soft_tokens) ==
    [total_soft_tokens |-> total_soft_tokens,
     prompt_table |-> IF existing_tasks # <<>> /\ existing_tasks[1] # NoTask
                      THEN WithRandomPrompts(<<>>, existing_tasks, total_soft_tokens)
                      ELSE <<>>,
     task_id_num_to_name |-> <<>>]

init_prompt_from_random(s, taskname) ==
    [s EXCEPT !.prompt_table =
        DictSet(@, taskname, PromptEmbedding(FALSE, s.total_soft_tokens, None))]

\* math.ceil(a / b) for a >= 0 and b > 0
Ceil(a, b) == (a + b - 1) \div b

\* list * n
RECURSIVE Repeated(_, _)
Repeated(list, n) == IF n <= 0 THEN <<>> ELSE list \o Repeated(list, n - 1)

\* lines 86-100 without the slice of line 100
TrimOrRepeatWithoutLastSlice(init_token_ids, total_soft_tokens) ==
    LET num_text_tokens == Len(init_token_ids) IN
    IF num_text_tokens > total_soft_tokens THEN Slice(init_token_ids, 0, total_soft_tokens)
    ELSE IF num_text_tokens < total_soft_tokens
         THEN Repeated(init_token_ids, Ceil(total_soft_tokens, num_text_tokens))
         ELSE init_token_ids

\* init_token_ids of line 100, for a list that is not empty
TrimOrRepeat(init_token_ids, total_soft_tokens) ==
    LET num_text_tokens == Len(init_token_ids)
        trimmed == IF num_text_tokens > total_soft_tokens
                   THEN Slice(init_token_ids, 0, total_soft_tokens)
                   ELSE IF num_text_tokens < total_soft_tokens
                        THEN Repeated(init_token_ids, Ceil(total_soft_tokens, num_text_tokens))
                        ELSE init_token_ids
    IN  Slice(trimmed, 0, total_soft_tokens)

\* the row of a token id in the weight of the model's word embeddings
EmbeddingRow(id) == <<"row", id>>

\* word_embeddings(init_token_ids): one row for each id, in order
word_embeddings(ids) == [i \in 1..Len(ids) |-> EmbeddingRow(ids[i])]

\* broadcast_data hands every rank the tensor of the first rank of its group; the ids
\* come from the config, the same on every rank
broadcast_data(ids) == ids

init_prompt_from_text(s, taskname, init_token_ids) ==
    IF Len(init_token_ids) < s.total_soft_tokens /\ Len(init_token_ids) = 0
    THEN [self |-> s, embedded |-> None, raised |-> "ZeroDivisionError"]
    ELSE LET ids == broadcast_data(TrimOrRepeat(init_token_ids, s.total_soft_tokens))
             word_embedding_weights == word_embeddings(ids)
         IN  [self |-> [s EXCEPT !.prompt_table =
                            DictSet(@, taskname,
                                    PromptEmbedding(TRUE, s.total_soft_tokens,
                                                    Some(word_embedding_weights)))],
              embedded |-> Some(ids),
              raised |-> "none"]

\* the key of line 62-65: the first key with the value taskname, None if there is none
TaskIdNum(d, taskname) ==
    IF \E i \in 1..Len(d) : d[i].value = taskname
    THEN Some(d[CHOOSE i \in 1..Len(d) :
                    /\ d[i].value = taskname
                    /\ \A j \in 1..(i - 1) : d[j].value # taskname].key)
    ELSE None

\* lines 57 and 62 read prompt_table and task_id_num_to_name as names of the module, which
\* has neither; were they the table's attributes, lines 57-68 would do what follows the test
remove_prompt(s, taskname) ==
    IF "prompt_table" \notin ModuleNames
    THEN [self |-> s, raised |-> "NameError: name 'prompt_table' is not defined"]
    ELSE IF ~DictHas(s.prompt_table, taskname)
    THEN [self |-> s, raised |-> "none"]
    ELSE IF "task_id_num_to_name" \notin ModuleNames
    THEN [self |-> s, raised |-> "NameError: name 'task_id_num_to_name' is not defined"]
    ELSE LET task_id_num == TaskIdNum(s.task_id_num_to_name, taskname) IN
         IF task_id_num = None
         THEN [self |-> s, raised |-> "KeyError"]
         ELSE [self |-> [s EXCEPT !.task_id_num_to_name = DictDel(@, task_id_num[1]),
                                  !.prompt_table = DictDel(@, taskname)],
               raised |-> "none"]

InitPromptFromRandom ==
    /\ table # None
    /\ \E taskname \in Tasks :
        /\ table' = Some(init_prompt_from_random(table[1], taskname))
        /\ pt_call' = [called |-> TRUE, op |-> "init_prompt_from_random", taskname |-> taskname,
                       init_token_ids |-> <<>>, before |-> table[1], embedded |-> None,
                       raised |-> "none"]
    /\ UNCHANGED <<voteVars, splitVars, glvVars, swVars, clusVars, fstVars>>

InitPromptFromText ==
    /\ table # None
    /\ \E taskname \in Tasks, n \in 0..MaxInitTokens : \E init_token_ids \in TokenIdLists(n) :
        LET out == init_prompt_from_text(table[1], taskname, init_token_ids) IN
        /\ table' = Some(out.self)
        /\ pt_call' = [called |-> TRUE, op |-> "init_prompt_from_text", taskname |-> taskname,
                       init_token_ids |-> init_token_ids, before |-> table[1],
                       embedded |-> out.embedded, raised |-> out.raised]
    /\ UNCHANGED <<voteVars, splitVars, glvVars, swVars, clusVars, fstVars>>

RemovePrompt ==
    /\ table # None
    /\ \E taskname \in Tasks :
        LET out == remove_prompt(table[1], taskname) IN
        /\ table' = Some(out.self)
        /\ pt_call' = [called |-> TRUE, op |-> "remove_prompt", taskname |-> taskname,
                       init_token_ids |-> <<>>, before |-> table[1], embedded |-> None,
                       raised |-> out.raised]
    /\ UNCHANGED <<voteVars, splitVars, glvVars, swVars, clusVars, fstVars>>

PromptNext == InitPromptFromRandom \/ InitPromptFromText \/ RemovePrompt

(***************************************************************************)
(* ClusterEmbedding.assign_labels_to_longer_segs.  A numpy array is the    *)
(* sequence of its elements.  session_scale_mapping_dict gives, for each   *)
(* session and each scale, an array with one entry for each base-scale     *)
(* segment: the index of the segment of that scale it is mapped to (the    *)
(* boolean mask of line 247 needs the two arrays to be equally long).      *)
(***************************************************************************)
SessionIds == <<"s1", "s2">>

ScaleCounts == {1, 2, 3}

ClusterLabels == {0, 1}

SegmentIndices == {0, 1}

\* base_clus_label_dict[uniq_id] of get_clus_emb: one [stt, end, label] for each segment
BaseEntries(lbls) == [i \in 1..Len(lbls) |-> <<i - 1, i, lbls[i]>>]

\* the mapping arrays of a session of num_segs base-scale segments, for scale_n scales; the
\* base scale is mapped to itself
ScaleMappings(scale_n, num_segs) ==
    {[scale_index \in 0..(scale_n - 1) |->
        IF scale_index = scale_n - 1 THEN [i \in 1..num_segs |-> i - 1] ELSE m[scale_index]] :
     m \in [0..(scale_n - 2) -> [1..num_segs -> SegmentIndices]]}

\* what the two dicts hold for one session; base is None for a session that
\* base_clus_label_dict has no key for
SessionInputs(scale_n, num_segs) ==
    {[base |-> base, mapping |-> mapping] :
        base \in {None} \cup {Some(BaseEntries(lbls)) : lbls \in [1..num_segs -> ClusterLabels]},
        mapping \in ScaleMappings(scale_n, num_segs)}

\* the inputs of num_sessions sessions with at most num_segs base-scale segments in all
RECURSIVE SessionLists(_, _, _)
SessionLists(scale_n, num_sessions, num_segs) ==
    IF num_sessions = 0 THEN {<<>>}
    ELSE UNION {{<<x>> \o rest : x \in SessionInputs(scale_n, n),
                                rest \in SessionLists(scale_n, num_sessions - 1, num_segs - n)} :
                n \in 0..num_segs}

\* np.array([x[-1] for x in base_clus_label_dict[uniq_id]])
LastOfEach(entries) == [i \in 1..Len(entries) |-> entries[i][Len(entries[i])]]

\* array[mask == seg_idx]
RECURSIVE Masked(_, _, _)
Masked(array, mask, seg_idx) ==
    IF array = <<>> THEN <<>>
    ELSE (IF Head(mask) = seg_idx THEN <<Head(array)>> ELSE <<>>)
         \o Masked(Tail(array), Tail(mask), seg_idx)

\* list(set(array)): a set of small non-negative ints is gone through in rising order
RECURSIVE Ascending(_)
Ascending(set) ==
    IF set = {} THEN <<>>
    ELSE LET least == CHOOSE x \in set : \A y \in set : x <= y IN
         <<least>> \o Ascending(set \ {least})

DistinctList(array) == Ascending(Range(array))

Count(data, x) == Cardinality({i \in 1..Len(data) : data[i] = x})

\* a mode that is the first element of the data
first_element(data) == data[1]

\* several values of the data are the most common: statistics.mode raises StatisticsError
\* before Python 3.8 and returns the first of them met from Python 3.8 on
NoUniqueMode(data) ==
    \E i, j \in 1..Len(data) :
        /\ data[i] # data[j]
        /\ Count(data, data[i]) = Count(data, data[j])
        /\ \A k \in 1..Len(data) : Count(data, data[k]) <= Count(data, data[i])

\* statistics.mode of data that is not empty, when it returns: the most common value, the
\* first met of several
mode(data) ==
    data[CHOOSE i \in 1..Len(data) :
            /\ \A j \in 1..Len(data) : Count(data, data[j]) <= Count(data, data[i])
            /\ \A j \in 1..(i - 1) : Count(data, data[j]) < Count(data, data[i])]

\* lines 245-248: new_clus_label of one scale of one session
NewClusLabel(base_scale_clus_label, mapping) ==
    LET seg_idxs == DistinctList(mapping) IN
    [k \in 1..Len(seg_idxs) |-> mode(Masked(base_scale_clus_label, mapping, seg_idxs[k]))]

\* lines 243-249: new_clus_label_dict after the body of the loop for one session
AssignSession(new, scale_n, uniq_id, base_scale_clus_label, uniq_scale_mapping_dict) ==
    [i \in 1..scale_n |->
        IF i = scale_n
        THEN DictSet(new[i], uniq_id, base_scale_clus_label)
        ELSE DictSet(new[i], uniq_id,
                     NewClusLabel(base_scale_clus_label, uniq_scale_mapping_dict[i - 1]))]

\* one turn of the loop of line 237
ClusSession ==
    /\ clus_pc = "for"
    /\ clus_i < Len(clus_in.session_scale_mapping_dict)
    /\ LET item == clus_in.session_scale_mapping_dict[clus_i + 1]
           uniq_id == item.key
       IN  IF DictHas(clus_in.base_clus_label_dict, uniq_id)
           THEN LET base_scale_clus_label == LastOfEach(DictGet(clus_in.base_clus_label_dict, uniq_id)) IN
                \/ /\ new_clus_label_dict' =
                            AssignSession(new_clus_label_dict, clus_in.scale_n, uniq_id,
                                          base_scale_clus_label, item.value)
                   /\ clus_i' = clus_i + 1
                   /\ UNCHANGED clus_pc
                \* line 247 under an interpreter older than 3.8; the dict, a local, is lost
                \/ /\ \E scale_index \in 0..(clus_in.scale_n - 2) :
                        \E seg_idx \in Range(item.value[scale_index]) :
                            NoUniqueMode(Masked(base_scale_clus_label, item.value[scale_index], seg_idx))
                   /\ clus_pc' = "StatisticsError"
                   /\ UNCHANGED <<new_clus_label_dict, clus_i>>
           ELSE \* KeyError, caught at line 240: the call stops in the debugger
                /\ clus_pc' = "ipdb.set_trace"
                /\ UNCHANGED <<new_clus_label_dict, clus_i>>
    /\ UNCHANGED clus_in
    /\ UNCHANGED <<voteVars, splitVars, glvVars, swVars, ptVars, fstVars>>

\* line 250
ClusReturn ==
    /\ clus_pc = "for"
    /\ clus_i = Len(clus_in.session_scale_mapping_dict)
    /\ clus_pc' = "returned"
    /\ UNCHANGED <<clus_in, new_clus_label_dict, clus_i>>
    /\ UNCHANGED <<voteVars, splitVars, glvVars, swVars, ptVars, fstVars>>

ClusNext == ClusSession \/ ClusReturn

(***************************************************************************)
(* PunctuationFst.  A transducer is the relation it stands for: a run is   *)
(* the output written so far and the input still to read, and each factor  *)
(* of the concatenation of lines 36-43 takes the runs before it to the     *)
(* runs after it.  The transducer rewrites a string to the outputs of the  *)
(* runs that have read it all; optimize() keeps the relation.              *)
(***************************************************************************)
NameField == <<"n", "a", "m", "e", ":">>

Quote == "\""

QuoteAndPauseLength == <<Quote, " ", "p", "a", "u", "s", "e", "_", "l", "e", "n", "g", "t", "h">>

\* graph_utils: the characters of a string, here those of the model's tokens
NEMO_CHAR == Range(NameField) \cup Range(QuoteAndPauseLength) \cup {",", "}", "\t"}

\* graph_utils: every character but the double quote
NEMO_NOT_QUOTE == NEMO_CHAR \ {Quote}

\* graph_utils: the characters that delete_space deletes
NEMO_WHITE_SPACE == {" ", "\t"}

StartsWith(string, prefix) ==
    Len(string) >= Len(prefix) /\ SubSeq(string, 1, Len(prefix)) = prefix

Rest(string, n) == SubSeq(string, n + 1, Len(string))

\* the numbers k >= min of leading characters of string that are all in chars
Leading(string, chars, min) ==
    {k \in min..Len(string) : \A i \in 1..k : string[i] \in chars}

\* runs + pynutil.delete(string)
Delete(runs, string) ==
    {[out |-> r.out, rest |-> Rest(r.rest, Len(string))] :
        r \in {r \in runs : StartsWith(r.rest, string)}}

\* runs + string: the string is read and written
Accept(runs, string) ==
    {[out |-> r.out \o string, rest |-> Rest(r.rest, Len(string))] :
        r \in {r \in runs : StartsWith(r.rest, string)}}

\* runs + pynini.closure(chars, min): the characters are read and written
Closure(runs, chars, min) ==
    UNION {{[out |-> r.out \o SubSeq(r.rest, 1, k), rest |-> Rest(r.rest, k)] :
                k \in Leading(r.rest, chars, min)} : r \in runs}

\* runs + pynutil.delete(pynini.closure(chars))
DeleteClosure(runs, chars) ==
    UNION {{[out |-> r.out, rest |-> Rest(r.rest, k)] : k \in Leading(r.rest, chars, 0)} : r \in runs}

\* graph_utils: delete_space
delete_space(runs) == DeleteClosure(runs, NEMO_WHITE_SPACE)

Outputs(runs) == {r.out : r \in {r \in runs : r.rest = <<>>}}

\* the transducer with the closing quote and pause_length accepted, not deleted
PunctuationFstKeepingPauseLength(string) ==
    LET name == Delete({[out |-> <<>>, rest |-> string]}, NameField)
        quote == Delete(delete_space(name), <<Quote>>)
        char == Closure(quote, NEMO_NOT_QUOTE, 1)
        pause == Accept(char, QuoteAndPauseLength)
    IN  Outputs(DeleteClosure(pause, NEMO_CHAR \ {"}"}))

\* the outputs of self.fst for a string
PunctuationFst(string) ==
    LET name == Delete({[out |-> <<>>, rest |-> string]}, NameField)
        quote == Delete(delete_space(name), <<Quote>>)
        char == Closure(quote, NEMO_NOT_QUOTE, 1)
        pause == Delete(char, QuoteAndPauseLength)
    IN  Outputs(DeleteClosure(pause, NEMO_CHAR \ {"}"}))

\* the strings of at most n characters of chars
RECURSIVE Strings(_, _)
Strings(chars, n) ==
    IF n = 0 THEN {<<>>}
    ELSE Strings(chars, n - 1) \cup
         {Append(string, c) : string \in {x \in Strings(chars, n - 1) : Len(x) = n - 1}, c \in chars}

\* the text of a token: its name between quotes after name: and spaces, then what follows it
TokenText(spaces, name, after) ==
    NameField \o [i \in 1..spaces |-> " "] \o <<Quote>> \o name \o QuoteAndPauseLength \o after

\* the transducer rewrites the token
Verbalize ==
    /\ verbalized = None
    /\ token.text # <<>>
    /\ verbalized' = Some(PunctuationFst(token.text))
    /\ UNCHANGED token
    /\ UNCHANGED <<voteVars, splitVars, glvVars, swVars, ptVars, clusVars>>

(***************************************************************************)
(* Specifications.                                                         *)
(***************************************************************************)
\* the values of the variables of a part that a specification leaves alone
IdleArgs == [max_seq_length |-> 1, step |-> 0, margin |-> 0]

IdleGlvIn == [num_words |-> 0, q_i |-> 0, segment_autoregressive_labels |-> <<>>,
              query_indices |-> <<>>, step |-> 0, margin |-> 0]

IdleToken == [text |-> <<>>, spaces |-> 0, name |-> <<>>, after |-> <<>>]

IdleClusIn == [scale_n |-> 1, base_clus_label_dict |-> <<>>, session_scale_mapping_dict |-> <<>>]

NonDecreasing(s) == \A i \in 1..(Len(s) - 1) : s[i] <= s[i + 1]

\* label voting: an empty counter, then votes, then the labels selected
InitVote ==
    /\ counter = <<>> /\ best = NoCall /\ applied = NoCall
    /\ args = IdleArgs /\ texts = <<>> /\ segments = <<>> /\ query_indices = <<>>
    /\ start_word_i = <<>> /\ segment_start = 0 /\ split_q_i = 0 /\ split_pc = "idle"
    /\ glv_in = IdleGlvIn /\ current_segment_i = 0 /\ segment_id_in_query = 0 /\ lbl_i = 0
    /\ num_processed_words_in_segment = 0 /\ punctuation_voting = <<>>
    /\ capitalization_voting = <<>> /\ contributed = {} /\ glv_pc = "idle"
    /\ self = None /\ ctor = NoCall /\ call = NoCall /\ fed = <<>>
    /\ table = None /\ pt_call = NoCall
    /\ clus_in = IdleClusIn /\ new_clus_label_dict = <<>> /\ clus_i = 0 /\ clus_pc = "idle"
    /\ token = IdleToken /\ verbalized = None

\* main up to the call of split_into_segments: arguments that get_args accepts, and the
\* input lines
InitSplit ==
    /\ counter = <<>> /\ best = NoCall /\ applied = NoCall
    /\ args \in {a \in [max_seq_length : 1..MaxSeqLen, step : 1..MaxStep, margin : (-1)..MaxMargin] :
                    ArgsValid(a)}
    /\ \E n \in 1..MaxTexts : \E lens \in [1..n -> 0..MaxWords] :
            texts = [t \in 1..n |-> Line(t - 1, lens[t])]
    /\ segments = <<>> /\ query_indices = <<>>
    /\ start_word_i = <<>> /\ segment_start = 0 /\ split_q_i = 0 /\ split_pc = "split"
    /\ glv_in = IdleGlvIn /\ current_segment_i = 0 /\ segment_id_in_query = 0 /\ lbl_i = 0
    /\ num_processed_words_in_segment = 0 /\ punctuation_voting = <<>>
    /\ capitalization_voting = <<>> /\ contributed = {} /\ glv_pc = "idle"
    /\ self = None /\ ctor = NoCall /\ call = NoCall /\ fed = <<>>
    /\ table = None /\ pt_call = NoCall
    /\ clus_in = IdleClusIn /\ new_clus_label_dict = <<>> /\ clus_i = 0 /\ clus_pc = "idle"
    /\ token = IdleToken /\ verbalized = None

\* get_label_votes called for the first query of a run: q_i = 0 and current_segment_i = 0
InitVotes ==
    /\ counter = <<>> /\ best = NoCall /\ applied = NoCall
    /\ args = IdleArgs /\ texts = <<>> /\ segments = <<>> /\ query_indices = <<>>
    /\ start_word_i = <<>> /\ segment_start = 0 /\ split_q_i = 0 /\ split_pc = "idle"
    /\ \E n \in 1..MaxSegments, num_words \in 1..MaxQueryWords,
          step \in 1..MaxStep, margin \in 0..MaxMargin :
        \E ls \in [1..n -> LabelStrings], qs \in {q \in [1..n -> 0..1] : NonDecreasing(q)} :
            glv_in = [num_words |-> num_words, q_i |-> 0, segment_autoregressive_labels |-> ls,
                      query_indices |-> qs, step |-> step, margin |-> margin]
    /\ current_segment_i = 0 /\ segment_id_in_query = 0 /\ lbl_i = 0
    /\ num_processed_words_in_segment = 0
    /\ punctuation_voting = [i \in 1..(glv_in.num_words + 1) |-> <<>>]
    /\ capitalization_voting = [i \in 1..glv_in.num_words |-> <<>>]
    /\ contributed = {} /\ glv_pc = "while"
    /\ self = None /\ ctor = NoCall /\ call = NoCall /\ fed = <<>>
    /\ table = None /\ pt_call = NoCall
    /\ clus_in = IdleClusIn /\ new_clus_label_dict = <<>> /\ clus_i = 0 /\ clus_pc = "idle"
    /\ token = IdleToken /\ verbalized = None

\* no wrapper yet
InitStream ==
    /\ counter = <<>> /\ best = NoCall /\ applied = NoCall
    /\ args = IdleArgs /\ texts = <<>> /\ segments = <<>> /\ query_indices = <<>>
    /\ start_word_i = <<>> /\ segment_start = 0 /\ split_q_i = 0 /\ split_pc = "idle"
    /\ glv_in = IdleGlvIn /\ current_segment_i = 0 /\ segment_id_in_query = 0 /\ lbl_i = 0
    /\ num_processed_words_in_segment = 0 /\ punctuation_voting = <<>>
    /\ capitalization_voting = <<>> /\ contributed = {} /\ glv_pc = "idle"
    /\ self = None /\ ctor = NoCall /\ call = NoCall /\ fed = <<>>
    /\ table = None /\ pt_call = NoCall
    /\ clus_in = IdleClusIn /\ new_clus_label_dict = <<>> /\ clus_i = 0 /\ clus_pc = "idle"
    /\ token = IdleToken /\ verbalized = None

\* a PromptTable as its constructor leaves it
InitPrompt ==
    /\ counter = <<>> /\ best = NoCall /\ applied = NoCall
    /\ args = IdleArgs /\ texts = <<>> /\ segments = <<>> /\ query_indices = <<>>
    /\ start_word_i = <<>> /\ segment_start = 0 /\ split_q_i = 0 /\ split_pc = "idle"
    /\ glv_in = IdleGlvIn /\ current_segment_i = 0 /\ segment_id_in_query = 0 /\ lbl_i = 0
    /\ num_processed_words_in_segment = 0 /\ punctuation_voting = <<>>
    /\ capitalization_voting = <<>> /\ contributed = {} /\ glv_pc = "idle"
    /\ self = None /\ ctor = NoCall /\ call = NoCall /\ fed = <<>>
    /\ \E existing_tasks \in ExistingTasks, total_soft_tokens \in 1..MaxSoftTokens :
            table = Some(PromptTable__init__(existing_tasks, total_soft_tokens))
    /\ pt_call = NoCall
    /\ clus_in = IdleClusIn /\ new_clus_label_dict = <<>> /\ clus_i = 0 /\ clus_pc = "idle"
    /\ token = IdleToken /\ verbalized = None

\* assign_labels_to_longer_segs at line 236, called for the sessions of SessionIds
InitClus ==
    /\ counter = <<>> /\ best = NoCall /\ applied = NoCall
    /\ args = IdleArgs /\ texts = <<>> /\ segments = <<>> /\ query_indices = <<>>
    /\ start_word_i = <<>> /\ segment_start = 0 /\ split_q_i = 0 /\ split_pc = "idle"
    /\ glv_in = IdleGlvIn /\ current_segment_i = 0 /\ segment_id_in_query = 0 /\ lbl_i = 0
    /\ num_processed_words_in_segment = 0 /\ punctuation_voting = <<>>
    /\ capitalization_voting = <<>> /\ contributed = {} /\ glv_pc = "idle"
    /\ self = None /\ ctor = NoCall /\ call = NoCall /\ fed = <<>>
    /\ table = None /\ pt_call = NoCall
    /\ \E scale_n \in ScaleCounts, num_sessions \in 0..Len(SessionIds) :
        \E sessions \in SessionLists(scale_n, num_sessions, MaxBaseSegs) :
            clus_in = [scale_n |-> scale_n,
                       base_clus_label_dict |->
                            LET given == SelectSeq([j \in 1..num_sessions |->
                                                        [key |-> SessionIds[j], value |-> sessions[j].base]],
                                                   LAMBDA item : item.value # None)
                            IN  [j \in 1..Len(given) |-> [key |-> given[j].key, value |-> given[j].value[1]]],
                       session_scale_mapping_dict |->
                            [j \in 1..num_sessions |->
                                [key |-> SessionIds[j], value |-> sessions[j].mapping]]]
    /\ new_clus_label_dict = [i \in 1..clus_in.scale_n |-> <<>>]
    /\ clus_i = 0 /\ clus_pc = "for"
    /\ token = IdleToken /\ verbalized = None

\* a token of the tagger's form, handed to the verbalizer
InitFst ==
    /\ counter = <<>> /\ best = NoCall /\ applied = NoCall
    /\ args = IdleArgs /\ texts = <<>> /\ segments = <<>> /\ query_indices = <<>>
    /\ start_word_i = <<>> /\ segment_start = 0 /\ split_q_i = 0 /\ split_pc = "idle"
    /\ glv_in = IdleGlvIn /\ current_segment_i = 0 /\ segment_id_in_query = 0 /\ lbl_i = 0
    /\ num_processed_words_in_segment = 0 /\ punctuation_voting = <<>>
    /\ capitalization_voting = <<>> /\ contributed = {} /\ glv_pc = "idle"
    /\ self = None /\ ctor = NoCall /\ call = NoCall /\ fed = <<>>
    /\ table = None /\ pt_call = NoCall
    /\ clus_in = IdleClusIn /\ new_clus_label_dict = <<>> /\ clus_i = 0 /\ clus_pc = "idle"
    /\ \E spaces \in 0..MaxSpaces, name \in Strings({",", "a", " ", Quote}, MaxNameLen),
          after \in Strings({":", " ", Quote, "}"}, MaxAfterLen) :
            token = [text |-> TokenText(spaces, name, after), spaces |-> spaces,
                     name |-> name, after |-> after]
    /\ verbalized = None

SpecVote == InitVote /\ [][VoteNext]_vars

SpecSplit == InitSplit /\ [][SplitNext]_vars

SpecVotes == InitVotes /\ [][GlvNext]_vars

\* a PromptTable and the calls on it
SpecPrompt == InitPrompt /\ [][PromptNext]_vars

\* one call of assign_labels_to_longer_segs
SpecClus == InitClus /\ [][ClusNext]_vars

\* the verbalization of one token
SpecFst == InitFst /\ [][Verbalize]_vars

\* the construction of a wrapper
SpecConstruct == InitStream /\ [][Construct]_vars

\* a wrapper and the forward calls on it
SpecStream == InitStream /\ [][SwNext]_vars

(***************************************************************************)
(* C1: select_best_label on a non-empty counter returns a label of the     *)
(* counter whose number of votes is the maximum over the counter.          *)
(***************************************************************************)
C1_MostFrequentLabelChosen ==
    (best.called /\ best.votes # <<>>) =>
        \E i \in 1..Len(best.votes) :
            /\ best.votes[i].lbl = best.result
            /\ \A j \in 1..Len(best.votes) : best.votes[j].votes <= best.votes[i].votes

\* the winner is neither the first label cast nor the one nearest to the middle
C1_Witness ==
    /\ best.called
    /\ Len(best.votes) >= 2
    /\ best.votes[1].lbl # best.result
    /\ \E i, j \in 1..Len(best.votes) :
        /\ best.votes[i].lbl = best.result
        /\ best.votes[j].votes < best.votes[i].votes
        /\ best.votes[j].dist * best.votes[i].votes > best.votes[i].dist * best.votes[j].votes

(***************************************************************************)
(* C3: in a run of main, the start words of two consecutive segments of    *)
(* one query differ by exactly --step.                                     *)
(***************************************************************************)
C3_ConsecutiveStartsDifferByStep ==
    split_pc = "done" =>
    \A k \in 1..(Len(start_word_i) - 1) :
        query_indices[k] = query_indices[k + 1] =>
            start_word_i[k + 1] - start_word_i[k] = args.step

(***************************************************************************)
(* C4: with margin > 0, get_label_votes takes no vote for the first margin *)
(* words of a segment that is not the first of its query, none for the     *)
(* last margin words of a segment that is not the last of its query, and a *)
(* vote for every other word of every segment of the query.                *)
(***************************************************************************)
\* the segments of the query, as places in query_indices
SegmentsOfQuery == {k \in 1..Len(glv_in.query_indices) : glv_in.query_indices[k] = glv_in.q_i}

WordDiscarded(k, w) ==
    LET n == CountCapitalizationLabels(glv_in.segment_autoregressive_labels[k]) IN
    \/ k - 1 > 0 /\ w < glv_in.margin
    \/ k + 1 \in SegmentsOfQuery /\ w >= n - glv_in.margin

C4_VotesOutsideTheMarginsOnly ==
    (glv_pc \notin {"idle", "while", "for"} /\ glv_in.margin > 0) =>
        \A k \in SegmentsOfQuery :
            \A w \in 0..(CountCapitalizationLabels(glv_in.segment_autoregressive_labels[k]) - 1) :
                (<<k - 1, w>> \in contributed) <=> ~WordDiscarded(k, w)

(***************************************************************************)
(* C5: every segment of split_into_segments is exactly max_seq_length      *)
(* consecutive words of the query its query_indices entry names, from the  *)
(* word its start_word_i entry names; the three lists are equally long.    *)
(***************************************************************************)
C5_SegmentsAreFullWindows ==
    split_pc = "done" =>
    /\ Len(segments) = Len(query_indices)
    /\ Len(segments) = Len(start_word_i)
    /\ \A k \in 1..Len(segments) :
        /\ query_indices[k] \in 0..(Len(not_empty_queries) - 1)
        /\ Len(segments[k]) = SplitMaxSeqLength
        /\ \A j \in 1..Len(segments[k]) :
            LET words == not_empty_queries[query_indices[k] + 1] IN
            /\ start_word_i[k] + j \in 1..Len(words)
            /\ segments[k][j] = words[start_word_i[k] + j]

\* the function returned segments of two queries, the second one's not from word 0
C5_Witness ==
    /\ split_pc = "done"
    /\ \E k, m \in 1..Len(segments) :
        /\ query_indices[k] # query_indices[m]
        /\ start_word_i[m] > 0
        /\ SplitMaxSeqLength >= 2

(***************************************************************************)
(* C6: without --no_all_upper_label, 'U' capitalizes the first character   *)
(* only, 'O' leaves the word as it is and 'u' is not a label; with it, 'u' *)
(* capitalizes the first character and 'U' upper-cases the whole word.     *)
(***************************************************************************)
C6_CapitalizationLabelsAsDocumented ==
    applied.called =>
        IF applied.no_all_upper_label
        THEN /\ applied.capitalization_label = "u" => applied.out = Returned(Capitalize(applied.word))
             /\ applied.capitalization_label = "U" => applied.out = Returned(Upper(applied.word))
        ELSE /\ applied.capitalization_label = "U" => applied.out = Returned(Capitalize(applied.word))
             /\ applied.capitalization_label = "O" => applied.out = Returned(applied.word)
             /\ applied.capitalization_label = "u" => applied.out = Raised("ValueError")

(***************************************************************************)
(* C2: with internal state, samplewise_inference and a ring buffer of size *)
(* R >= 1, after forward calls with inputs x1..xk of time size 1 the state *)
(* has R frames, the last min(k, R) inputs in order after R - min(k, R)    *)
(* zero frames, and the k-th call applied the wrapped layer to that buffer.*)
(***************************************************************************)
FedFrames == [i \in 1..Len(fed) |-> fed[i][1]]

ExpectedRing(frames, r) ==
    LET m == Min(Len(frames), r) IN
    Zeros(r - m) \o SubSeq(frames, Len(frames) - m + 1, Len(frames))

InternalSamplewiseCalls ==
    /\ call.called
    /\ self[1].mode = "STREAM_INTERNAL_STATE_INFERENCE"
    /\ self[1].samplewise_inference
    /\ Truthy(self[1].ring_buffer_size_in_time_dim)
    /\ \A i \in 1..Len(fed) : Len(fed[i]) = 1

C2_RingBufferHoldsLastInputs ==
    InternalSamplewiseCalls =>
        LET expected == ExpectedRing(FedFrames, self[1].ring_buffer_size_in_time_dim[1]) IN
        /\ self[1].states = Some(expected)
        /\ call.raised = "none"
        /\ call.cell_input = Some(expected)

(***************************************************************************)
(* C7: with external state and a non-zero ring buffer, a forward call      *)
(* computes the updated state from input_state and the input, keeps it in  *)
(* output_state and leaves input_state as it was.                          *)
(***************************************************************************)
UpdatedState(s, state, x) ==
    LET r == s.ring_buffer_size_in_time_dim[1] IN
    IF s.samplewise_inference
    THEN SubSeq(state, 2, Min(r, Len(state))) \o x
    ELSE SubSeq(state \o x, Max(1, Len(state) + Len(x) - r + 1), Len(state) + Len(x))

C7_ExternalStateStoredInOutputState ==
    (/\ call.called
     /\ self[1].mode = "STREAM_EXTERNAL_STATE_INFERENCE"
     /\ Truthy(self[1].ring_buffer_size_in_time_dim)
     /\ self[1].built
     /\ self[1].samplewise_inference => Len(call.input) = 1) =>
        LET state == BuildStates(call.before, call.input).self.input_state IN
        /\ call.raised = "none"
        /\ self[1].input_state = state
        /\ self[1].output_state = Some(UpdatedState(self[1], state[1], call.input))

(***************************************************************************)
(* C8: in TRAINING and NON_STREAM_INFERENCE modes, for a conv, an average  *)
(* pool or a global op and no pad_time_dim, forward hands its input as it  *)
(* is to the wrapped layer, returns, and touches no streaming state.       *)
(***************************************************************************)
C8_NonStreamingCallsTheWrappedLayer ==
    (/\ call.called
     /\ self[1].mode \in NonStreamingModes
     /\ self[1].inner_module.kind # "Linear"
     /\ self[1].pad_time_dim = "None") =>
        /\ call.raised = "none"
        /\ call.cell_input = Some(call.input)
        /\ self[1].states = None
        /\ self[1].input_state = None
        /\ self[1].output_state = None

(***************************************************************************)
(* C9: without an explicit ring buffer size, wrapping a conv in a          *)
(* streaming mode raises ValueError if the conv's padding is not zero, or  *)
(* if samplewise_inference is set and the stride in time exceeds 1; in     *)
(* TRAINING and NON_STREAM_INFERENCE modes neither raises.                 *)
(***************************************************************************)
ConvWithoutRingSize ==
    /\ ctor.called
    /\ ctor.ring_buffer_size_in_time_dim = None
    /\ _is_conv_op(self[1].inner_module)

C9_StreamingConvChecks ==
    ConvWithoutRingSize =>
        LET m == self[1].inner_module IN
        IF self[1].mode \in NonStreamingModes
        THEN ctor.raised = "none"
        ELSE /\ m.padding.v # 0 => ctor.raised = "ValueError: conv/cell padding has to be 0"
             /\ (m.padding.v = 0 /\ self[1].samplewise_inference /\ m.stride > 1) =>
                    ctor.raised \in {"ValueError: conv/cell padding has to be 0",
                                     "ValueError: Stride in time dim greater than 1"}

\* a strided conv with padding 0 is refused for its stride
C9_Witness ==
    /\ ConvWithoutRingSize
    /\ self[1].mode = "STREAM_INTERNAL_STATE_INFERENCE"
    /\ self[1].inner_module.padding.v = 0
    /\ self[1].inner_module.stride > 1
    /\ ctor.raised = "ValueError: Stride in time dim greater than 1"

(***************************************************************************)
(* C10: wrapping a layer that is no conv, pool or global op raises         *)
(* ValueError ('Cell is not supported') in every mode, unless the ring     *)
(* buffer size is given: then nothing is raised and the size is kept.      *)
(***************************************************************************)
C10_UnsupportedCell ==
    (ctor.called /\ self[1].inner_module.kind = "Linear") =>
        IF ctor.ring_buffer_size_in_time_dim = None
        THEN ctor.raised = "ValueError: Cell is not supported"
        ELSE /\ ctor.raised = "none"
             /\ self[1].ring_buffer_size_in_time_dim = ctor.ring_buffer_size_in_time_dim

\* a given size of 0 is kept, in a streaming mode
C10_Witness ==
    /\ ctor.called
    /\ self[1].inner_module.kind = "Linear"
    /\ self[1].mode = "STREAM_EXTERNAL_STATE_INFERENCE"
    /\ ctor.ring_buffer_size_in_time_dim = Some(0)
    /\ ctor.raised = "none"
    /\ self[1].ring_buffer_size_in_time_dim = Some(0)

(***************************************************************************)
(* C11: init_prompt_from_text with n >= 1 token ids on a table of          *)
(* total_soft_tokens = T looks up exactly T ids, the i-th (from 0) being   *)
(* init_token_ids[i mod n], and the prompt it stores for the task holds    *)
(* the embedding rows of these ids, in order.                              *)
(***************************************************************************)
InitFromTextCalled ==
    /\ pt_call.called
    /\ pt_call.op = "init_prompt_from_text"
    /\ Len(pt_call.init_token_ids) >= 1

C11_TrimmedOrRepeatedToTotalSoftTokens ==
    InitFromTextCalled =>
        LET T == table[1].total_soft_tokens
            n == Len(pt_call.init_token_ids)
        IN  /\ pt_call.raised = "none"
            /\ pt_call.embedded # None
            /\ Len(pt_call.embedded[1]) = T
            /\ \A i \in 0..(T - 1) : pt_call.embedded[1][i + 1] = pt_call.init_token_ids[(i % n) + 1]
            /\ DictHas(table[1].prompt_table, pt_call.taskname)
            /\ DictGet(table[1].prompt_table, pt_call.taskname).weight =
                    Some([i \in 1..T |-> EmbeddingRow(pt_call.init_token_ids[((i - 1) % n) + 1])])

\* the ids are repeated and the last repetition is cut: n = 2 and T = 3, two different ids
C11_Witness ==
    /\ InitFromTextCalled
    /\ Len(pt_call.init_token_ids) = 2
    /\ pt_call.init_token_ids[1] # pt_call.init_token_ids[2]
    /\ table[1].total_soft_tokens = 3
    /\ pt_call.embedded = Some(<<pt_call.init_token_ids[1], pt_call.init_token_ids[2],
                                 pt_call.init_token_ids[1]>>)

(***************************************************************************)
(* C12: remove_prompt(taskname) on a table without an entry for taskname   *)
(* returns and changes nothing; on a table with one it returns, and then   *)
(* the table has no entry for taskname, task_id_num_to_name has no task id *)
(* of taskname, and the entries of the other tasks are as before.          *)
(***************************************************************************)
C12_RemovePromptRemovesTheTask ==
    (pt_call.called /\ pt_call.op = "remove_prompt") =>
        LET before == pt_call.before
            after == table[1]
            taskname == pt_call.taskname
        IN  /\ pt_call.raised = "none"
            /\ IF ~DictHas(before.prompt_table, taskname)
               THEN after = before
               ELSE /\ ~DictHas(after.prompt_table, taskname)
                    /\ \A i \in 1..Len(after.task_id_num_to_name) :
                            after.task_id_num_to_name[i].value # taskname
                    /\ \A other \in Tasks \ {taskname} :
                        /\ DictHas(after.prompt_table, other) <=> DictHas(before.prompt_table, other)
                        /\ DictHas(before.prompt_table, other) =>
                            DictGet(after.prompt_table, other) = DictGet(before.prompt_table, other)

(***************************************************************************)
(* C13: when assign_labels_to_longer_segs returns, for every session of    *)
(* session_scale_mapping_dict the base scale has the session's base-scale  *)
(* labels in their order, and every coarser scale has one label for each   *)
(* distinct segment index of its mapping: a label that no other label      *)
(* outnumbers among the base-scale segments mapped to that segment.        *)
(***************************************************************************)
\* the base-scale segments of a session that a mapping sends to segment seg_idx
MappedSegments(entries, mapping, seg_idx) == {i \in 1..Len(entries) : mapping[i] = seg_idx}

VotesFor(entries, mapping, seg_idx, label) ==
    Cardinality({i \in MappedSegments(entries, mapping, seg_idx) : entries[i][3] = label})

C13_CoarserScalesGetMajorityLabels ==
    clus_pc = "returned" =>
        \A j \in 1..Len(clus_in.session_scale_mapping_dict) :
            LET uniq_id == clus_in.session_scale_mapping_dict[j].key
                mapping == clus_in.session_scale_mapping_dict[j].value
                entries == DictGet(clus_in.base_clus_label_dict, uniq_id)
                scale_n == clus_in.scale_n
            IN  /\ DictHas(new_clus_label_dict[scale_n], uniq_id)
                /\ DictGet(new_clus_label_dict[scale_n], uniq_id) =
                        [i \in 1..Len(entries) |-> entries[i][3]]
                /\ \A scale_index \in 0..(scale_n - 2) :
                    LET seg_idxs == {mapping[scale_index][i] : i \in 1..Len(entries)}
                        given == DictGet(new_clus_label_dict[scale_index + 1], uniq_id)
                    IN  /\ DictHas(new_clus_label_dict[scale_index + 1], uniq_id)
                        /\ Len(given) = Cardinality(seg_idxs)
                        /\ \A seg_idx \in seg_idxs :
                            LET k == Cardinality({x \in seg_idxs : x < seg_idx}) + 1 IN
                            /\ VotesFor(entries, mapping[scale_index], seg_idx, given[k]) >= 1
                            /\ \A label \in ClusterLabels :
                                VotesFor(entries, mapping[scale_index], seg_idx, label)
                                    <= VotesFor(entries, mapping[scale_index], seg_idx, given[k])

\* the call returned a majority label that is not the label of the first segment mapped,
\* for the second of two sessions
C13_Witness ==
    /\ clus_pc = "returned"
    /\ clus_in.scale_n >= 2
    /\ \E j \in 1..Len(clus_in.session_scale_mapping_dict) :
        LET uniq_id == clus_in.session_scale_mapping_dict[j].key
            mapping == clus_in.session_scale_mapping_dict[j].value[0]
            entries == DictGet(clus_in.base_clus_label_dict, uniq_id)
            given == DictGet(new_clus_label_dict[1], uniq_id)
        IN  /\ j = 2
            /\ Len(entries) = 3
            /\ \A i \in 1..3 : mapping[i] = 1
            /\ given = <<entries[2][3]>>
            /\ entries[1][3] # entries[2][3]
            /\ entries[3][3] = entries[2][3]

(***************************************************************************)
(* C14: a token name: "X" pause_length<rest>, with X not empty and without *)
(* a double quote and <rest> without '}', is rewritten to X and to nothing *)
(* else, however many spaces stand between name: and the quote.            *)
(***************************************************************************)
PunctuationToken ==
    /\ verbalized # None
    /\ token.name # <<>>
    /\ Quote \notin Range(token.name)
    /\ "}" \notin Range(token.after)

C14_VerbalizedAsItsName ==
    PunctuationToken => verbalized = Some({token.name})

\* name: "," pause_length: " is rewritten to ,
C14_Witness ==
    /\ PunctuationToken
    /\ token.name = <<",">>
    /\ token.spaces = 1
    /\ token.after = <<":", " ">>
    /\ verbalized = Some({<<",">>})

====
